---- MODULE Spec2Model ----
(***************************************************************************)
(* Model of paritydb's collision log (src/paritydb/src/collision.rs):      *)
(* one append-only log file per prefix, an in-memory BTreeMap index from   *)
(* key to {position, size}, rebuilt by replaying the file on open.         *)
(*                                                                         *)
(* The file is a sequence of bytes (0..255).  Offsets are 0-based as in    *)
(* the code; byte at offset o is disk[o + 1].                              *)
(***************************************************************************)
EXTENDS Integers, Sequences, FiniteSets, TLC

\* ------------------------------------------------------------------------
\* Bounds of the model and the inputs the operations are called with.
\* ------------------------------------------------------------------------

\* At most this many append attempts (insert / tombstone records) on the file.
MaxAppends == 3

\* At most this many of the append attempts fail part-way.
MaxFailures == 1

\* Keys: different lengths, and byte order differs from length order.
Keys == { <<1>>, <<0, 2>> }

\* Values: the empty value is legal and is not a tombstone.
Values == { <<>>, <<7>> }

\* ------------------------------------------------------------------------
\* Option<T> and byte helpers
\* ------------------------------------------------------------------------

None == <<>>

Some(x) == <<x>>

Min(a, b) == IF a <= b THEN a ELSE b

\* A u32 is kept as its four little-endian bytes wherever it may exceed
\* 2^31 - 1; lengths that occur as numbers in the model are below 2^31.

\* A usize (64 bits), as its eight little-endian bytes, for 0 <= n < 2^31.
UsizeLE(n) ==
  << n % 256, (n \div 256) % 256, (n \div 65536) % 256, (n \div 16777216) % 256,
     0, 0, 0, 0 >>

\* `len as u32`, on the bytes of a usize: the low 32 bits are kept.
AsU32(len) == SubSeq(len, 1, 4)

\* `size as usize`, on the bytes of a u32: zero-extended.
U32AsUsize(size) == size \o << 0, 0, 0, 0 >>

\* writer.write_u32::<LittleEndian>(n as u32) for a length n: four bytes,
\* least significant first.
U32LE(n) == AsU32(UsizeLE(n))

\* reader.read_u32::<LittleEndian>() applied to four bytes b with b[4] < 128.
ReadU32LE(b) == b[1] + 256 * b[2] + 65536 * b[3] + 16777216 * b[4]

\* The u32 whose bytes are b is larger than n (0 <= n < 2^31).
U32Exceeds(b, n) == b[4] >= 128 \/ ReadU32LE(b) > n

\* Ord for Vec<u8>: byte-lexicographic, a proper prefix sorts first.
KeyLess(a, b) ==
  \E i \in 1..(Min(Len(a), Len(b)) + 1) :
    /\ \A j \in 1..(i - 1) : a[j] = b[j]
    /\ \/ (i > Len(a) /\ i <= Len(b))
       \/ (i <= Len(a) /\ i <= Len(b) /\ a[i] < b[i])

\* BTreeMap iteration order: the keys of S in ascending order.
RECURSIVE SortedKeys(_)
SortedKeys(S) ==
  IF S = {} THEN <<>>
  ELSE LET m == CHOOSE k \in S : \A o \in S \ {k} : KeyLess(k, o)
       IN <<m>> \o SortedKeys(S \ {m})

\* ------------------------------------------------------------------------
\* LogEntry: the record codec
\* ------------------------------------------------------------------------

ENTRY_STATIC_SIZE == 8

\* !0u32, as the bytes write_u32::<LittleEndian> produces for it.
ENTRY_TOMBSTONE == << 255, 255, 255, 255 >>

\* LogEntry::len
LogEntryLen(key, value) == ENTRY_STATIC_SIZE + Len(key) + Len(value)

\* Variant of write's byte layout that writes key.len() into both length
\* fields.
InsertBytesKeyLenTwice(key, value) ==
  U32LE(Len(key)) \o key \o U32LE(Len(key)) \o value

\* The bytes LogEntry::write hands to the writer, in order.
InsertBytes(key, value) ==
  U32LE(Len(key)) \o key \o U32LE(Len(value)) \o value

\* The bytes LogEntry::write_deleted hands to the writer, in order.
TombstoneBytes(key) ==
  U32LE(Len(key)) \o key \o ENTRY_TOMBSTONE

\* The stream position of a handle just opened with append(true): the
\* operating system starts every handle at offset 0, append mode only moves
\* the offset to the end of the file when a write happens.
OpenCursor(f) == 0

\* A write of n > 0 bytes through the append-mode handle: the bytes go to the
\* end of the file and the handle's offset is left at the new end.
CursorAfterWrite(f, cur, bytes) ==
  IF Len(bytes) = 0 THEN cur ELSE Len(f) + Len(bytes)

\* Variant of write for a handle opened with write(true) instead of
\* append(true): the bytes land at the handle's stream position, over
\* whatever is there.
LogEntryWriteAtCursor(f, cur, key, value) ==
  [ position |-> cur,
    file     |-> SubSeq(f, 1, cur) \o InsertBytes(key, value)
                   \o SubSeq(f, cur + Len(InsertBytes(key, value)) + 1, Len(f)),
    cursor   |-> cur + Len(InsertBytes(key, value)) ]

\* LogEntry::write on the append-mode handle: position is the handle's stream
\* position before writing (seek(Current(0))).
LogEntryWrite(f, cur, key, value) ==
  [ position |-> cur,
    file     |-> f \o InsertBytes(key, value),
    cursor   |-> CursorAfterWrite(f, cur, InsertBytes(key, value)) ]

\* LogEntry::write_deleted on the append-mode handle.
LogEntryWriteDeleted(f, cur, key) ==
  [ position |-> cur,
    file     |-> f \o TombstoneBytes(key),
    cursor   |-> CursorAfterWrite(f, cur, TombstoneBytes(key)) ]

UnexpectedEof == [ kind |-> "UnexpectedEof" ]

\* LogEntry::read with the reader at offset pos.  Every read_u32 / read_exact
\* that finds fewer bytes than it needs fails with UnexpectedEof.
LogEntryRead(f, pos) ==
  IF pos + 4 > Len(f) THEN UnexpectedEof
  ELSE
    LET key_size == SubSeq(f, pos + 1, pos + 4)
        kpos     == pos + 4
    IN
    IF U32Exceeds(key_size, Len(f) - kpos) THEN UnexpectedEof
    ELSE
      LET key  == SubSeq(f, kpos + 1, kpos + ReadU32LE(key_size))
          vpos == kpos + ReadU32LE(key_size)
      IN
      IF vpos + 4 > Len(f) THEN UnexpectedEof
      ELSE
        LET value_size == SubSeq(f, vpos + 1, vpos + 4) IN
        IF value_size = ENTRY_TOMBSTONE
        THEN [ kind |-> "Ok", position |-> pos, key |-> key,
               value |-> None, next |-> vpos + 4 ]
        ELSE IF U32Exceeds(value_size, Len(f) - (vpos + 4)) THEN UnexpectedEof
        ELSE [ kind |-> "Ok", position |-> pos, key |-> key,
               value |-> Some(SubSeq(f, vpos + 5,
                                     vpos + 4 + ReadU32LE(value_size))),
               next |-> vpos + 4 + ReadU32LE(value_size) ]

\* ------------------------------------------------------------------------
\* LogIterator and build_index
\* ------------------------------------------------------------------------

\* LogIterator::next with the reader at offset pos: an UnexpectedEof from the
\* codec ends the sequence (None), anything decoded is Some(Ok(entry)).
LogIteratorNext(f, pos) ==
  LET r == LogEntryRead(f, pos) IN
  IF r.kind = "UnexpectedEof" THEN None ELSE Some(r)

EmptyIndex == [ k \in {} |-> 0 ]

\* BTreeMap::insert
IndexInsert(index, key, entry) ==
  [ k \in (DOMAIN index) \cup {key} |-> IF k = key THEN entry ELSE index[k] ]

\* BTreeMap::remove
IndexRemove(index, key) ==
  [ k \in (DOMAIN index) \ {key} |-> index[k] ]

\* The for loop of build_index, from reader offset pos with the map so far.
RECURSIVE BuildFrom(_, _, _)
BuildFrom(f, pos, index) ==
  LET n == LogIteratorNext(f, pos) IN
  IF n = None THEN index
  ELSE
    LET entry == n[1] IN
    IF entry.value # None
    THEN BuildFrom(f, entry.next,
           IndexInsert(index, entry.key,
             [ position |-> entry.position,
               size     |-> LogEntryLen(entry.key, entry.value[1]) ]))
    ELSE BuildFrom(f, entry.next, IndexRemove(index, entry.key))

\* Collision::build_index
BuildIndex(f) == BuildFrom(f, 0, EmptyIndex)

\* ------------------------------------------------------------------------
\* Reads: Collision::get and CollisionLogIterator
\* ------------------------------------------------------------------------

Ok(v) == [ kind |-> "Ok", val |-> v, err |-> "" ]

Err(e) == [ kind |-> "Err", val |-> <<>>, err |-> e ]

Panic(msg) == [ kind |-> "Panic", val |-> <<>>, err |-> msg ]

NoLog == [ kind |-> "NoLog", val |-> <<>>, err |-> "" ]

\* Collision::get, on a fresh read-only handle: Ok(None) on an index miss;
\* on a hit seek to the stored position, decode one record, assert the key,
\* expect a value.
GetResult(index, f, key) ==
  IF key \in DOMAIN index
  THEN LET entry == LogEntryRead(f, index[key].position) IN
       IF entry.kind = "UnexpectedEof" THEN Err("UnexpectedEof")
       ELSE IF entry.key # key THEN Panic("assertion failed: entry.key == key")
       ELSE IF entry.value = None
            THEN Panic("index only points to live entries; qed")
       ELSE Ok(Some(entry.value[1]))
  ELSE Ok(None)

\* CollisionLogIterator::next for one index entry: seek to its position and
\* decode one record; the item is Ok((key, value)) or Err, a tombstone panics.
IterItem(f, ientry) ==
  LET entry == LogEntryRead(f, ientry.position) IN
  IF entry.kind = "UnexpectedEof"
  THEN [ kind |-> "Err", key |-> <<>>, value |-> <<>> ]
  ELSE IF entry.value = None
  THEN [ kind |-> "Panic", key |-> <<>>, value |-> <<>> ]
  ELSE [ kind |-> "Ok", key |-> entry.key, value |-> entry.value[1] ]

\* Collision::iter drained to its end: one item per index entry, in the
\* index's key order (index.values()).
IterItems(index, f) ==
  LET keys == SortedKeys(DOMAIN index) IN
  [ i \in 1..Len(keys) |-> IterItem(f, index[keys[i]]) ]

IterResult(index, f) ==
  LET items == IterItems(index, f) IN
  IF \E i \in 1..Len(items) : items[i].kind = "Panic"
  THEN Panic("index only points to live entries; qed")
  ELSE Ok(items)

\* ------------------------------------------------------------------------
\* CollisionLogIterator objects
\* ------------------------------------------------------------------------

\* At most this many iterators are alive on the instance at a time.
NumIters == 2

IterIds == 1..NumIters

\* No iterator in this slot.
NoIter == [ live |-> FALSE, values |-> <<>>, fpos |-> 0, out |-> <<>>,
            ended |-> FALSE ]

\* No record header encoded yet.
NoWire == [ set |-> FALSE, key_len |-> <<>>, value_len |-> <<>>,
            key_size |-> <<>>, value_size |-> <<>> ]

\* ------------------------------------------------------------------------
\* State
\* ------------------------------------------------------------------------

VARIABLES
  exists,   \* the log file collision-<prefix>.log exists in the directory
  disk,     \* its bytes
  opened,   \* a Collision instance is alive (holds the write handle)
  index,    \* Collision.index
  cursor,   \* stream position of Collision.file (the append-mode handle)
  result,   \* what the last call returned
  lastOp,   \* the last call and its arguments
  appends,  \* number of append attempts made on the file so far
  failures, \* number of append attempts that failed
  hist,     \* per key, the last two successful insert/delete calls on it
  touched,  \* keys of the successful insert/delete calls of this session
  iters,    \* the CollisionLogIterators alive on the instance: the index
            \* entries still to visit, the read handle's offset, the items
            \* yielded so far, and whether next has returned None
  written,  \* records handed to the codec's writers directly, in order
  wire      \* length fields of the record header encoded last

vars == << exists, disk, opened, index, cursor, result, lastOp, appends,
           failures, hist, touched, iters, written, wire >>

Call(op, key, value) == [ op |-> op, key |-> key, value |-> value ]

\* No iterator borrows the instance: iter takes &'a self, so insert and
\* delete (&mut self) and the drop of the instance need all iterators gone.
NoIterators == \A i \in IterIds : ~iters[i].live

\* The record of a successful mutation of key kept in hist.
Push(h, key, call) ==
  [ h EXCEPT ![key] = IF Len(@) < 2 THEN Append(@, call)
                      ELSE << @[2], call >> ]

Init ==
  /\ exists = FALSE
  /\ disk = <<>>
  /\ opened = FALSE
  /\ index = EmptyIndex
  /\ cursor = 0
  /\ result = Ok(None)
  /\ lastOp = Call("none", <<>>, <<>>)
  /\ appends = 0
  /\ failures = 0
  /\ hist = [ k \in Keys |-> <<>> ]
  /\ touched = {}
  /\ iters = [ i \in IterIds |-> NoIter ]
  /\ written = <<>>
  /\ wire = NoWire

\* ------------------------------------------------------------------------
\* Operations
\* ------------------------------------------------------------------------

\* Variant of create that opens with create(true).truncate(true) instead of
\* create_new(true): an existing file is emptied and handed out.
CreateTruncating ==
  /\ lastOp' = Call("create", <<>>, <<>>)
  /\ exists' = TRUE
  /\ disk' = <<>>
  /\ opened' = TRUE
  /\ index' = EmptyIndex
  /\ cursor' = 0
  /\ touched' = {}
  /\ result' = Ok(None)
  /\ UNCHANGED << appends, failures, hist >>
  /\ UNCHANGED << iters, written, wire >>

\* Collision::create: create_new(true) fails with AlreadyExists when the
\* file is there (an instance that holds it is not affected), otherwise
\* makes an empty file; the index starts empty.
Create ==
  /\ lastOp' = Call("create", <<>>, <<>>)
  /\ IF exists
     THEN /\ result' = Err("AlreadyExists")
          /\ UNCHANGED << exists, disk, opened, index, cursor, touched >>
     ELSE /\ exists' = TRUE
          /\ disk' = <<>>
          /\ opened' = TRUE
          /\ index' = EmptyIndex
          /\ cursor' = 0
          /\ touched' = {}
          /\ result' = Ok(None)
  /\ UNCHANGED << appends, failures, hist >>
  /\ UNCHANGED << iters, written, wire >>

\* Variant of open that adds create(true) to the open options: a missing
\* file is created empty and an instance is returned.
OpenCreating ==
  /\ ~opened
  /\ lastOp' = Call("open", <<>>, <<>>)
  /\ exists' = TRUE
  /\ opened' = TRUE
  /\ index' = BuildIndex(disk)
  /\ cursor' = OpenCursor(disk)
  /\ touched' = {}
  /\ result' = Ok(None)
  /\ UNCHANGED << disk, appends, failures, hist >>
  /\ UNCHANGED << iters, written, wire >>

\* Collision::open: Ok(None) when the file is missing, otherwise an
\* append-mode handle and the index replayed from the file.
Open ==
  /\ ~opened
  /\ lastOp' = Call("open", <<>>, <<>>)
  /\ IF ~exists
     THEN /\ result' = NoLog
          /\ UNCHANGED << exists, disk, opened, index, cursor, touched >>
     ELSE /\ opened' = TRUE
          /\ index' = BuildIndex(disk)
          /\ cursor' = OpenCursor(disk)
          /\ touched' = {}
          /\ result' = Ok(None)
          /\ UNCHANGED << exists, disk >>
  /\ UNCHANGED << appends, failures, hist >>
  /\ UNCHANGED << iters, written, wire >>

\* The instance is dropped: the handle is closed, the file stays.
Close ==
  /\ opened
  /\ NoIterators
  /\ opened' = FALSE
  /\ index' = EmptyIndex
  /\ cursor' = 0
  /\ touched' = {}
  /\ result' = Ok(None)
  /\ lastOp' = Call("close", <<>>, <<>>)
  /\ UNCHANGED << exists, disk, appends, failures, hist >>
  /\ UNCHANGED << iters, written, wire >>

\* Collision::insert, the append succeeding.
Insert(key, value) ==
  /\ opened
  /\ NoIterators
  /\ appends < MaxAppends
  /\ LET w == LogEntryWrite(disk, cursor, key, value) IN
       /\ disk' = w.file
       /\ cursor' = w.cursor
       /\ index' = IndexInsert(index, key,
                     [ position |-> w.position,
                       size     |-> LogEntryLen(key, value) ])
  /\ result' = Ok(None)
  /\ lastOp' = Call("insert", key, value)
  /\ appends' = appends + 1
  /\ hist' = Push(hist, key, Call("insert", key, value))
  /\ touched' = touched \cup {key}
  /\ UNCHANGED << exists, opened, failures >>
  /\ UNCHANGED << iters, written, wire >>

\* Variant of delete that drops the key from the index without appending a
\* tombstone.
DeleteNoTombstone(key) ==
  /\ opened
  /\ NoIterators
  /\ index' = IndexRemove(index, key)
  /\ result' = Ok(None)
  /\ lastOp' = Call("delete", key, <<>>)
  /\ hist' = Push(hist, key, Call("delete", key, <<>>))
  /\ touched' = touched \cup {key}
  /\ UNCHANGED << exists, opened, disk, cursor, appends, failures >>
  /\ UNCHANGED << iters, written, wire >>

\* Variant of delete that appends a tombstone whether or not the key is in
\* the index.
DeleteAlwaysTombstone(key) ==
  /\ opened
  /\ NoIterators
  /\ appends < MaxAppends
  /\ index' = IndexRemove(index, key)
  /\ LET w == LogEntryWriteDeleted(disk, cursor, key) IN
       /\ disk' = w.file
       /\ cursor' = w.cursor
  /\ appends' = appends + 1
  /\ result' = Ok(None)
  /\ lastOp' = Call("delete", key, <<>>)
  /\ hist' = Push(hist, key, Call("delete", key, <<>>))
  /\ touched' = touched \cup {key}
  /\ UNCHANGED << exists, opened, failures >>
  /\ UNCHANGED << iters, written, wire >>

\* Collision::delete, the append (if any) succeeding: a tombstone is written
\* only when the key was in the index.
Delete(key) ==
  /\ opened
  /\ NoIterators
  /\ IF key \in DOMAIN index
     THEN /\ appends < MaxAppends
          /\ index' = IndexRemove(index, key)
          /\ LET w == LogEntryWriteDeleted(disk, cursor, key) IN
               /\ disk' = w.file
               /\ cursor' = w.cursor
          /\ appends' = appends + 1
     ELSE UNCHANGED << index, disk, cursor, appends >>
  /\ result' = Ok(None)
  /\ lastOp' = Call("delete", key, <<>>)
  /\ hist' = Push(hist, key, Call("delete", key, <<>>))
  /\ touched' = touched \cup {key}
  /\ UNCHANGED << exists, opened, failures >>
  /\ UNCHANGED << iters, written, wire >>

\* The reader's offset after LogEntry::read at pos: behind the record, or at
\* the end of the data when the read ran out of bytes.
OffsetAfterRead(f, pos) ==
  LET entry == LogEntryRead(f, pos) IN
  IF entry.kind = "Ok" THEN entry.next ELSE Len(f)

\* Variant of get that seeks and reads through the instance's own (write)
\* handle instead of opening a read-only one.
GetOnWriteHandle(key) ==
  /\ opened
  /\ result' = GetResult(index, disk, key)
  /\ lastOp' = Call("get", key, <<>>)
  /\ cursor' = IF key \in DOMAIN index
               THEN OffsetAfterRead(disk, index[key].position)
               ELSE cursor
  /\ UNCHANGED << exists, disk, opened, index, appends, failures, hist,
                  touched >>
  /\ UNCHANGED << iters, written, wire >>

\* Collision::get
Get(key) ==
  /\ opened
  /\ result' = GetResult(index, disk, key)
  /\ lastOp' = Call("get", key, <<>>)
  /\ UNCHANGED << exists, disk, opened, index, cursor, appends, failures, hist,
                  touched >>
  /\ UNCHANGED << iters, written, wire >>

\* Collision::iter, and the iterator drained
Iter ==
  /\ opened
  /\ result' = IterResult(index, disk)
  /\ lastOp' = Call("iter", <<>>, <<>>)
  /\ UNCHANGED << exists, disk, opened, index, cursor, appends, failures, hist,
                  touched >>
  /\ UNCHANGED << iters, written, wire >>

Next ==
  \/ Create
  \/ Open
  \/ Close
  \/ \E key \in Keys, value \in Values : Insert(key, value)
  \/ \E key \in Keys : Delete(key)
  \/ \E key \in Keys : Get(key)
  \/ Iter

Spec == Init /\ [][Next]_vars

\* ------------------------------------------------------------------------
\* Failing appends: the writer returns an error after n bytes of the record
\* have reached the file (LogEntry::write* issue several writes, each `?`).
\* ------------------------------------------------------------------------

\* Collision::insert, the append failing after n bytes: the error is
\* returned before the index is touched.
InsertFail(key, value, n) ==
  /\ opened
  /\ NoIterators
  /\ appends < MaxAppends
  /\ failures < MaxFailures
  /\ n < Len(InsertBytes(key, value))
  /\ disk' = disk \o SubSeq(InsertBytes(key, value), 1, n)
  /\ cursor' = CursorAfterWrite(disk, cursor, SubSeq(InsertBytes(key, value), 1, n))
  /\ result' = Err("WriteFailed")
  /\ lastOp' = Call("insert", key, value)
  /\ appends' = appends + 1
  /\ failures' = failures + 1
  /\ UNCHANGED << exists, opened, index, hist, touched >>
  /\ UNCHANGED << iters, written, wire >>

\* Collision::delete of a present key, the append failing after n bytes:
\* index.remove has already run when the write is attempted.
DeleteFail(key, n) ==
  /\ opened
  /\ NoIterators
  /\ appends < MaxAppends
  /\ failures < MaxFailures
  /\ key \in DOMAIN index
  /\ n < Len(TombstoneBytes(key))
  /\ index' = IndexRemove(index, key)
  /\ disk' = disk \o SubSeq(TombstoneBytes(key), 1, n)
  /\ cursor' = CursorAfterWrite(disk, cursor, SubSeq(TombstoneBytes(key), 1, n))
  /\ result' = Err("WriteFailed")
  /\ lastOp' = Call("delete", key, <<>>)
  /\ appends' = appends + 1
  /\ failures' = failures + 1
  /\ UNCHANGED << exists, opened, hist, touched >>
  /\ UNCHANGED << iters, written, wire >>

\* Failure points: every byte count up to the longest record.
FailPoints == 0..(ENTRY_STATIC_SIZE + 3)

NextFail ==
  \/ Next
  \/ \E key \in Keys, value \in Values, n \in FailPoints : InsertFail(key, value, n)
  \/ \E key \in Keys, n \in FailPoints : DeleteFail(key, n)

SpecFail == Init /\ [][NextFail]_vars

\* ------------------------------------------------------------------------
\* Iterators advanced one item at a time
\* ------------------------------------------------------------------------

\* Collision::iter -> CollisionLogIterator::new: index.values() from its
\* start and a fresh read-only handle on the file.
IterNew(i) ==
  /\ opened
  /\ ~iters[i].live
  /\ iters' = [ iters EXCEPT ![i] =
                  [ live   |-> TRUE,
                    values |-> [ j \in 1..Cardinality(DOMAIN index) |->
                                   index[SortedKeys(DOMAIN index)[j]] ],
                    fpos   |-> 0,
                    out    |-> <<>>,
                    ended  |-> FALSE ] ]
  /\ UNCHANGED << exists, disk, opened, index, cursor, result, lastOp,
                  appends, failures, hist, touched, written, wire >>

\* CollisionLogIterator::next: None when index_iter is exhausted, otherwise
\* seek this iterator's handle to the entry's position and decode one record.
IterNext(i) ==
  /\ iters[i].live
  /\ IF iters[i].values = <<>>
     THEN iters' = [ iters EXCEPT ![i].ended = TRUE ]
     ELSE iters' = [ iters EXCEPT
            ![i].values = Tail(@),
            ![i].fpos   = OffsetAfterRead(disk, Head(iters[i].values).position),
            ![i].out    = Append(@, IterItem(disk, Head(iters[i].values))) ]
  /\ UNCHANGED << exists, disk, opened, index, cursor, result, lastOp,
                  appends, failures, hist, touched, written, wire >>

\* The iterator is dropped.
IterDrop(i) ==
  /\ iters[i].live
  /\ iters' = [ iters EXCEPT ![i] = NoIter ]
  /\ UNCHANGED << exists, disk, opened, index, cursor, result, lastOp,
                  appends, failures, hist, touched, written, wire >>

NextIter ==
  \/ Next
  \/ \E i \in IterIds : IterNew(i)
  \/ \E i \in IterIds : IterNext(i)
  \/ \E i \in IterIds : IterDrop(i)

SpecIter == Init /\ [][NextIter]_vars

\* ------------------------------------------------------------------------
\* The codec on its own: records written back to back, then decoded
\* ------------------------------------------------------------------------

\* Keys and values handed to the codec: empty ones, and ones whose bytes look
\* like length fields or like the tombstone sentinel.
CodecKeys == { <<>>, <<1>>, << 255, 255, 255, 255 >> }

CodecValues == { <<>>, <<7>>, << 0, 0, 0, 0 >>, << 255, 255, 255, 255 >> }

\* A fresh, empty file behind an append-mode writer.
InitCodec ==
  /\ exists = TRUE
  /\ disk = <<>>
  /\ opened = FALSE
  /\ index = EmptyIndex
  /\ cursor = 0
  /\ result = Ok(None)
  /\ lastOp = Call("none", <<>>, <<>>)
  /\ appends = 0
  /\ failures = 0
  /\ hist = [ k \in Keys |-> <<>> ]
  /\ touched = {}
  /\ iters = [ i \in IterIds |-> NoIter ]
  /\ written = <<>>
  /\ wire = NoWire

\* LogEntry::write(writer, key, value)
CodecWrite(key, value) ==
  /\ appends < MaxAppends
  /\ LET w == LogEntryWrite(disk, cursor, key, value) IN
       /\ disk' = w.file
       /\ cursor' = w.cursor
  /\ written' = Append(written, [ position |-> Len(disk), key |-> key,
                                  value |-> Some(value) ])
  /\ appends' = appends + 1
  /\ lastOp' = Call("write", key, value)
  /\ result' = Ok(None)
  /\ UNCHANGED << exists, opened, index, failures, hist, touched, iters, wire >>

\* LogEntry::write_deleted(writer, key)
CodecWriteDeleted(key) ==
  /\ appends < MaxAppends
  /\ LET w == LogEntryWriteDeleted(disk, cursor, key) IN
       /\ disk' = w.file
       /\ cursor' = w.cursor
  /\ written' = Append(written, [ position |-> Len(disk), key |-> key,
                                  value |-> None ])
  /\ appends' = appends + 1
  /\ lastOp' = Call("write_deleted", key, <<>>)
  /\ result' = Ok(None)
  /\ UNCHANGED << exists, opened, index, failures, hist, touched, iters, wire >>

\* Successive LogEntry::read calls from offset pos until one fails.
RECURSIVE ReadAll(_, _)
ReadAll(f, pos) ==
  LET entry == LogEntryRead(f, pos) IN
  IF entry.kind = "UnexpectedEof" THEN <<>>
  ELSE << entry >> \o ReadAll(f, entry.next)

\* The file is decoded from its start by successive reads.
CodecReadAll ==
  /\ result' = Ok(ReadAll(disk, 0))
  /\ lastOp' = Call("read_all", <<>>, <<>>)
  /\ UNCHANGED << exists, disk, opened, index, cursor, appends, failures, hist,
                  touched, iters, written, wire >>

NextCodec ==
  \/ \E key \in CodecKeys, value \in CodecValues : CodecWrite(key, value)
  \/ \E key \in CodecKeys : CodecWriteDeleted(key)
  \/ CodecReadAll

SpecCodec == InitCodec /\ [][NextCodec]_vars

\* ------------------------------------------------------------------------
\* The length fields of a record header, at their real widths
\* ------------------------------------------------------------------------

\* Lengths a key or value can have on a 64-bit target, as usize bytes: among
\* them 0, 255, 2^32 - 1, 2^32 and 2^32 + 255.
USizes ==
  { len \in [ 1..8 -> {0, 1, 255} ] :
      /\ \A i \in 1..4 : len[i] \in {0, 255}
      /\ len[5] \in {0, 1}
      /\ \A i \in 6..8 : len[i] = 0 }

\* LogEntry::write computes the two length fields of the header for a key of
\* key_len bytes and a value of value_len bytes; no length is refused.
EncodeLengths(key_len, value_len) ==
  /\ wire' = [ set        |-> TRUE,
               key_len    |-> key_len,
               value_len  |-> value_len,
               key_size   |-> AsU32(key_len),
               value_size |-> AsU32(value_len) ]
  /\ lastOp' = Call("encode", key_len, value_len)
  /\ result' = Ok(None)
  /\ UNCHANGED << exists, disk, opened, index, cursor, appends, failures, hist,
                  touched, iters, written >>

\* LogEntry::read interprets the two fields: a tombstone when value_size is
\* the sentinel, otherwise a key of key_size and a value of value_size bytes.
DecodeLengths ==
  /\ wire.set
  /\ result' = Ok(<< [ tombstone |-> wire.value_size = ENTRY_TOMBSTONE,
                       key_len   |-> U32AsUsize(wire.key_size),
                       value_len |-> U32AsUsize(wire.value_size) ] >>)
  /\ lastOp' = Call("decode", wire.key_len, wire.value_len)
  /\ UNCHANGED << exists, disk, opened, index, cursor, appends, failures, hist,
                  touched, iters, written, wire >>

NextLen ==
  \/ \E key_len \in USizes, value_len \in USizes : EncodeLengths(key_len, value_len)
  \/ DecodeLengths

SpecLen == InitCodec /\ [][NextLen]_vars

\* ------------------------------------------------------------------------
\* Mutations made through Collision::apply
\* ------------------------------------------------------------------------

\* transaction::Operation values: Insert(key, value) and Delete(key).
Operations ==
  { Call("insert", key, value) : key \in Keys, value \in Values }
    \cup { Call("delete", key, <<>>) : key \in Keys }

\* Variant of apply that handles Delete(key) by inserting an empty value.
ApplyDeleteAsEmptyInsert(op) ==
  IF op.op = "delete" THEN Insert(op.key, <<>>)
  ELSE Insert(op.key, op.value)

\* Collision::apply: match on the operation and call delete or insert.
Apply(op) ==
  IF op.op = "delete" THEN Delete(op.key)
  ELSE Insert(op.key, op.value)

NextApply ==
  \/ Create
  \/ Open
  \/ Close
  \/ \E op \in Operations : Apply(op)
  \/ \E key \in Keys : Get(key)
  \/ Iter

SpecApply == Init /\ [][NextApply]_vars

\* ------------------------------------------------------------------------
\* Properties
\* ------------------------------------------------------------------------

\* The last successful insert/delete call on key (hist[key] is not empty).
LastCall(key) == hist[key][Len(hist[key])]

\* The last successful call on key is an insert: key is expected to be live.
ExpectLive(key) == hist[key] # <<>> /\ LastCall(key).op = "insert"

\* C1: round trip. A get(k) made while the last successful insert/delete call
\* on k is insert(k, v) returns Some(v), in the session of the insert and in
\* any later session opened on the file.
C1_RoundTrip ==
  (opened /\ lastOp.op = "get" /\ ExpectLive(lastOp.key))
    => result = Ok(Some(LastCall(lastOp.key).value))

\* C2: reopen equivalence. What get and iter show on the live instance is what
\* they show on the instance open would build from the file at that moment.
C2_ReopenEquivalence ==
  opened =>
    /\ \A key \in Keys :
         GetResult(index, disk, key) = GetResult(BuildIndex(disk), disk, key)
    /\ IterResult(index, disk) = IterResult(BuildIndex(disk), disk)

\* C3: ordered iteration. iter yields exactly the live keys, each once and
\* with its most recently inserted value, in strictly ascending key order.
C3_OrderedIteration ==
  (opened /\ lastOp.op = "iter") =>
    /\ result.kind = "Ok"
    /\ \A i \in 1..Len(result.val) : result.val[i].kind = "Ok"
    /\ \A i \in 1..(Len(result.val) - 1) :
         KeyLess(result.val[i].key, result.val[i + 1].key)
    /\ { << result.val[i].key, result.val[i].value >> : i \in 1..Len(result.val) }
         = { << key, LastCall(key).value >> : key \in { k \in Keys : ExpectLive(k) } }

\* C4: tombstone effect. A get(k) made while the last two successful calls on
\* k are insert(k, v) then delete(k) returns Ok(None), live and after reopen.
C4_TombstoneEffect ==
  (/\ opened
   /\ lastOp.op = "get"
   /\ Len(hist[lastOp.key]) = 2
   /\ hist[lastOp.key][1].op = "insert"
   /\ hist[lastOp.key][2].op = "delete")
    => result = Ok(None)

\* C4 witness: the insert and the delete were made in an earlier session, the
\* log was reopened, and get(k) returned not-found.
C4_Witness ==
  /\ opened
  /\ lastOp.op = "get"
  /\ Len(hist[lastOp.key]) = 2
  /\ hist[lastOp.key][1].op = "insert"
  /\ hist[lastOp.key][2].op = "delete"
  /\ lastOp.key \notin touched
  /\ LogEntryRead(disk, 0).kind = "Ok"
  /\ result = Ok(None)

\* The last two successful calls on key are insert(key, v1), insert(key, v2).
TwoInserts(key) ==
  /\ Len(hist[key]) = 2
  /\ hist[key][1].op = "insert"
  /\ hist[key][2].op = "insert"

\* C5: last write wins. After insert(k, v1) then insert(k, v2), get(k) returns
\* v2 and iter yields k exactly once, with v2.
C5_LastWriteWins ==
  /\ (opened /\ lastOp.op = "get" /\ TwoInserts(lastOp.key))
       => result = Ok(Some(hist[lastOp.key][2].value))
  /\ (opened /\ lastOp.op = "iter")
       => \A key \in { k \in Keys : TwoInserts(k) } :
            /\ result.kind = "Ok"
            /\ Cardinality({ i \in 1..Len(result.val) :
                             result.val[i].kind = "Ok" /\ result.val[i].key = key }) = 1
            /\ \A i \in 1..Len(result.val) :
                 (result.val[i].kind = "Ok" /\ result.val[i].key = key)
                   => result.val[i].value = hist[key][2].value

\* C6: index/log consistency. The index of a live instance equals the fold
\* build_index computes from the file at that moment.
C6_IndexIsFoldOfLog ==
  opened => index = BuildIndex(disk)

\* The offset at which a replay of f from offset pos stops.
RECURSIVE ScanEnd(_, _)
ScanEnd(f, pos) ==
  LET r == LogEntryRead(f, pos) IN
  IF r.kind = "UnexpectedEof" THEN pos ELSE ScanEnd(f, r.next)

\* C7: a replay that runs out of data after some but not all bytes of a
\* record makes open return an error.
C7_TruncatedTailIsError ==
  (lastOp.op = "open" /\ exists /\ ScanEnd(disk, 0) < Len(disk))
    => result.kind = "Err"

\* C8: delete of a key that is not in the index returns success and changes
\* neither the file, nor the index, nor the write handle.
C8_DeleteAbsentIsNoop ==
  [][ \A key \in Keys :
        (Delete(key) /\ key \notin DOMAIN index)
          => (result' = Ok(None) /\ UNCHANGED << exists, disk, opened, index, cursor >>)
    ]_vars

\* C8 witness: a second delete in a row of the same key, on a file that holds
\* records.
C8_Witness ==
  /\ opened
  /\ lastOp.op = "delete"
  /\ Len(hist[lastOp.key]) = 2
  /\ hist[lastOp.key][1].op = "delete"
  /\ hist[lastOp.key][2].op = "delete"
  /\ lastOp.key \notin DOMAIN index
  /\ disk # <<>>
  /\ result = Ok(None)

\* C9: create on an existing file fails with AlreadyExists and leaves the
\* file (and an instance holding it) as it was; create with no file succeeds
\* with an empty file and an empty index.
C9_DuplicateCreate ==
  [][ Create =>
        IF exists
        THEN /\ result' = Err("AlreadyExists")
             /\ UNCHANGED << exists, disk, opened, index, cursor >>
        ELSE /\ result' = Ok(None)
             /\ exists' /\ opened'
             /\ disk' = <<>>
             /\ index' = EmptyIndex
    ]_vars

\* C9 witness: a create refused on a file that holds records.
C9_Witness ==
  /\ lastOp.op = "create"
  /\ result = Err("AlreadyExists")
  /\ exists
  /\ disk # <<>>

\* C10: open with no file returns the no-log outcome and creates nothing;
\* right after it a create succeeds and an open still returns no-log.
C10_OpenMissing ==
  [][ /\ (Open /\ ~exists)
        => (result' = NoLog /\ ~exists' /\ ~opened' /\ disk' = disk)
      /\ (lastOp.op = "open" /\ result = NoLog /\ Create)
        => (result' = Ok(None) /\ exists' /\ opened')
      /\ (lastOp.op = "open" /\ result = NoLog /\ Open)
        => result' = NoLog
    ]_vars

\* C10 witness: an open that found no file.
C10_Witness ==
  /\ lastOp.op = "open"
  /\ result = NoLog
  /\ ~exists
  /\ ~opened
\* C11: append-only log. No step shortens the file or changes a byte already
\* in it; a successful insert adds exactly 8 + |k| + |v| bytes at the end, a
\* successful delete of a present key exactly 8 + |k|; get, iter, open and a
\* delete of an absent key leave the file as it is.
C11_AppendOnly ==
  [][ /\ Len(disk') >= Len(disk)
      /\ SubSeq(disk', 1, Len(disk)) = disk
      /\ \A key \in Keys, value \in Values :
           Insert(key, value)
             => Len(disk') = Len(disk) + 8 + Len(key) + Len(value)
      /\ \A key \in Keys :
           (Delete(key) /\ key \in DOMAIN index)
             => Len(disk') = Len(disk) + 8 + Len(key)
      /\ ( \/ \E key \in Keys : (lastOp'.op = "get" /\ Get(key))
           \/ (lastOp'.op = "iter" /\ Iter)
           \/ Open
           \/ \E key \in Keys : (Delete(key) /\ key \notin DOMAIN index) )
           => disk' = disk
    ]_vars

\* C11 witness: the first insert of a session opened on a file that already
\* held records has been appended behind them.
C11_Witness ==
  /\ opened
  /\ lastOp.op = "insert"
  /\ touched = { lastOp.key }
  /\ cursor = Len(disk)
  /\ Len(disk) > LogEntryLen(lastOp.key, lastOp.value)
  /\ LogEntryRead(disk, 0).kind = "Ok"

\* C13: the corruption assertions cannot fire. For every key of the index the
\* record decoded at the stored position has that key and carries a value.
C13_IndexPointsAtLiveRecord ==
  opened =>
    \A key \in DOMAIN index :
      LET entry == LogEntryRead(disk, index[key].position) IN
      /\ entry.kind = "Ok"
      /\ entry.key = key
      /\ entry.value # None

\* C14: the position an insert stores in the index is the offset of the
\* record's first byte, that is the file's length before the append.
C14_PositionIsOffset ==
  (opened /\ lastOp.op = "insert" /\ result.kind = "Ok")
    => index[lastOp.key].position
         = Len(disk) - LogEntryLen(lastOp.key, lastOp.value)

\* C15: a delete whose tombstone append fails returns the error and leaves
\* the key in the index.
C15_FailedDeleteKeepsKey ==
  (opened /\ lastOp.op = "delete" /\ result.kind = "Err")
    => lastOp.key \in DOMAIN index

\* C16: an insert whose append fails returns the error and leaves the index
\* as it was; a successful insert sets index[k] to the new record, replacing
\* any previous entry of k.
C16_InsertUpdatesIndexOnSuccess ==
  [][ /\ \A key \in Keys, value \in Values, n \in FailPoints :
           InsertFail(key, value, n)
             => (result'.kind = "Err" /\ index' = index)
      /\ \A key \in Keys, value \in Values :
           Insert(key, value)
             => /\ result' = Ok(None)
                /\ index' = IndexInsert(index, key,
                              [ position |-> Len(disk),
                                size     |-> LogEntryLen(key, value) ])
    ]_vars

\* The part of C16 about failing appends alone.
C16_FailedInsertKeepsIndex ==
  [][ \A key \in Keys, value \in Values, n \in FailPoints :
        InsertFail(key, value, n) => (result'.kind = "Err" /\ index' = index)
    ]_vars
\* C17: reads have no effect on the writer. get, iter, the creation of an
\* iterator and each of its steps leave the index, the file and the write
\* handle's position unchanged.
C17_ReadsLeaveWriterAlone ==
  [][ ( \/ \E key \in Keys : (lastOp'.op = "get" /\ Get(key))
        \/ (lastOp'.op = "iter" /\ Iter)
        \/ \E i \in IterIds : (lastOp' = lastOp /\ IterNew(i))
        \/ \E i \in IterIds : (lastOp' = lastOp /\ IterNext(i)) )
        => UNCHANGED << exists, disk, opened, index, cursor >>
    ]_vars

\* C17 witness: after writes of this session, a get and an iterator that has
\* yielded an item, the write handle is still at the end of the file.
C17_Witness ==
  /\ opened
  /\ touched # {}
  /\ lastOp.op = "get"
  /\ result.kind = "Ok" /\ result.val # None
  /\ \E i \in IterIds : iters[i].live /\ Len(iters[i].out) > 0
  /\ cursor = Len(disk)

\* The pairs of the live keys in ascending key order, as items.
ExpectedItems ==
  LET keys == SortedKeys({ k \in Keys : ExpectLive(k) }) IN
  [ j \in 1..Len(keys) |->
      [ kind |-> "Ok", key |-> keys[j], value |-> LastCall(keys[j]).value ] ]

\* C18: independent iterators. Every iterator that has ended has yielded the
\* complete sequence of live pairs in ascending key order, as many items as
\* the index has entries, and a step of one iterator changes no other.
C18_IndependentIterators ==
  [][ /\ \A i \in IterIds :
           (iters'[i].live /\ iters'[i].ended)
             => /\ iters'[i].out = ExpectedItems'
                /\ Len(iters'[i].out) = Cardinality(DOMAIN index')
      /\ \A i \in IterIds, j \in IterIds :
           (i # j /\ lastOp' = lastOp /\ IterNext(j)) => iters'[i] = iters[i]
    ]_vars
\* The part of C18 about independence and length alone: a step of one
\* iterator changes no other, and an iterator ends after as many items as the
\* index has entries.
C18_StepsAreIndependent ==
  [][ /\ \A i \in IterIds :
           (iters'[i].live /\ iters'[i].ended)
             => Len(iters'[i].out) = Cardinality(DOMAIN index')
      /\ \A i \in IterIds, j \in IterIds :
           (i # j /\ lastOp' = lastOp /\ IterNext(j)) => iters'[i] = iters[i]
    ]_vars
\* C19: codec round trip. Successive reads decode the records written back
\* to back into the same sequence: each at the offset its write started at,
\* with the written key, the written value (absent for a tombstone), and a
\* length of 8 + |k| + |v| bytes (8 + |k| for a tombstone).
C19_CodecRoundTrip ==
  (lastOp.op = "read_all") =>
    /\ result.kind = "Ok"
    /\ Len(result.val) = Len(written)
    /\ \A i \in 1..Len(written) :
         /\ result.val[i].position = written[i].position
         /\ result.val[i].key = written[i].key
         /\ result.val[i].value = written[i].value
         /\ result.val[i].next - result.val[i].position
              = IF written[i].value = None
                THEN 8 + Len(written[i].key)
                ELSE 8 + Len(written[i].key) + Len(written[i].value[1])

\* C19 witness: a decoded file that holds a tombstone, a record whose value
\* has the sentinel's bytes and a record with an empty value.
C19_Witness ==
  /\ lastOp.op = "read_all"
  /\ Len(written) = 3
  /\ Len(result.val) = 3
  /\ \E i \in 1..3 : written[i].value = None
  /\ \E i \in 1..3 : written[i].value = Some(<< 255, 255, 255, 255 >>)
  /\ \E i \in 1..3 : written[i].value = Some(<<>>)
\* C20: the sentinel is never produced by an insert. The value-length field
\* an accepted insert writes is not the sentinel and is |v| untruncated, the
\* key-length field is |k| untruncated, and the record is decoded as a value
\* record with those lengths.
C20_InsertNeverWritesSentinel ==
  /\ wire.set =>
       /\ wire.value_size # ENTRY_TOMBSTONE
       /\ U32AsUsize(wire.value_size) = wire.value_len
       /\ U32AsUsize(wire.key_size) = wire.key_len
  /\ (wire.set /\ lastOp.op = "decode") =>
       /\ ~result.val[1].tombstone
       /\ result.val[1].key_len = wire.key_len
       /\ result.val[1].value_len = wire.value_len
\* C12: apply dispatch. From any state, apply(Insert(k, v)) returns what
\* insert(k, v) returns and leaves the file and the index as insert(k, v)
\* does, and apply(Delete(k)) does so for delete(k).
C12_ApplyDispatch ==
  [][ \A op \in Operations :
        Apply(op) =>
          /\ op.op = "insert" =>
               /\ result' = Ok(None)
               /\ disk' = disk \o InsertBytes(op.key, op.value)
               /\ index' = IndexInsert(index, op.key,
                             [ position |-> cursor,
                               size     |-> LogEntryLen(op.key, op.value) ])
               /\ Insert(op.key, op.value)
          /\ op.op = "delete" =>
               /\ result' = Ok(None)
               /\ disk' = IF op.key \in DOMAIN index
                          THEN disk \o TombstoneBytes(op.key) ELSE disk
               /\ index' = IndexRemove(index, op.key)
               /\ Delete(op.key)
    ]_vars

\* C12 witness: a key inserted and then deleted, both through apply, with the
\* tombstone in the file and the key out of the index.
C12_Witness ==
  /\ opened
  /\ lastOp.op = "delete"
  /\ Len(hist[lastOp.key]) = 2
  /\ hist[lastOp.key][1].op = "insert"
  /\ hist[lastOp.key][2].op = "delete"
  /\ lastOp.key \notin DOMAIN index
  /\ LogEntryRead(disk, Len(disk) - Len(TombstoneBytes(lastOp.key))).kind = "Ok"
  /\ LogEntryRead(disk, Len(disk) - Len(TombstoneBytes(lastOp.key))).value = None

====
